---- MODULE Spec2Model ----
(***************************************************************************)
(* xin - X11 forwarded input receiver (src/xin.c).                         *)
(*                                                                         *)
(* A C string is a sequence of one-character strings.  The main loop of    *)
(* main() is one action per fgets() call; the blocking XNextEvent() loop   *)
(* of xkblayout() is one action per event taken from the queue.            *)
(***************************************************************************)
EXTENDS Integers, Sequences, FiniteSets, TLC

\* ------------------------------------------------------------------------
\* C types and characters
\* ------------------------------------------------------------------------

\* int is 32 bits wide.
INT_MAX == 2147483647
INT_MIN == -INT_MAX - 1

\* Whether a - b is an int, for ints a and b.
SubInRange(a, b) ==
  IF b > 0 THEN a >= INT_MIN + b ELSE a <= INT_MAX + b

\* a - b wrapped to 32 bits in two's complement, when it is no int.
SubWrapped(a, b) ==
  IF b < 0 THEN ((a + INT_MIN) - b) + INT_MIN
  ELSE ((a - INT_MIN) - b) - INT_MIN

\* char buf[64] of main(): fgets() stores at most BufSize - 1 characters.
BufSize == 64

NL == "\n"
CR == "\r"

Digits == {"0", "1", "2", "3", "4", "5", "6", "7", "8", "9"}

DigitVal(c) ==
  CASE c = "0" -> 0 [] c = "1" -> 1 [] c = "2" -> 2 [] c = "3" -> 3
    [] c = "4" -> 4 [] c = "5" -> 5 [] c = "6" -> 6 [] c = "7" -> 7
    [] c = "8" -> 8 [] c = "9" -> 9

\* isalpha() in the "C" locale, over the letters the inputs use.
Letters == {"a", "b", "f", "k", "l", "m", "r", "s", "u", "x", "B", "K"}

isalpha(c) == c \in Letters

\* isspace(): what a white-space directive of sscanf() skips.
isspace(c) == c \in {" ", "\t", NL, CR}

\* ------------------------------------------------------------------------
\* <string.h>, <stdio.h>
\* ------------------------------------------------------------------------

\* strcspn(buf, "\r\n"): the length of the prefix free of CR and LF.
RECURSIVE strcspn(_)
strcspn(s) ==
  IF s = <<>> \/ Head(s) \in {CR, NL} THEN 0 ELSE 1 + strcspn(Tail(s))

RECURSIVE SkipSpace(_)
SkipSpace(s) ==
  IF s # <<>> /\ isspace(Head(s)) THEN SkipSpace(Tail(s)) ELSE s

\* The digits at the head of s, as [n |-> how many, v |-> their value
\* with the sign sgn].
RECURSIVE ScanDigits(_, _, _, _)
ScanDigits(s, n, v, sgn) ==
  IF s # <<>> /\ Head(s) \in Digits
    THEN ScanDigits(Tail(s), n + 1, 10 * v + sgn * DigitVal(Head(s)), sgn)
    ELSE [n |-> n, v |-> v, rest |-> s]

\* One %d conversion: skips white space, takes an optional sign and the
\* digits.  res is "ok", "fail" (matching failure) or "eof" (input ended
\* before any character of the field).
ScanInt(s) ==
  LET t == SkipSpace(s)
      signed == t # <<>> /\ Head(t) \in {"-", "+"}
      u == IF signed THEN Tail(t) ELSE t
      d == ScanDigits(u, 0, 0, IF signed /\ Head(t) = "-" THEN -1 ELSE 1)
  IN  IF t = <<>> THEN [res |-> "eof", v |-> 0, rest |-> t]
      ELSE IF d.n = 0 THEN [res |-> "fail", v |-> 0, rest |-> t]
      ELSE [res |-> "ok",
            v |-> d.v,
            rest |-> d.rest]

\* sscanf(buf, "%c %d %d", &c, &v1, &v2) with the first `want` conversions
\* of the format (want = 2 is the format "%c %d"): the value returned and
\* what was stored.  EOF is -1.
sscanf(s, want) ==
  IF s = <<>> THEN [ret |-> -1, c |-> "", v1 |-> 0, v2 |-> 0]
  ELSE
    LET c  == Head(s)
        i1 == ScanInt(Tail(s))
        i2 == ScanInt(i1.rest)
    IN  IF i1.res # "ok" THEN [ret |-> 1, c |-> c, v1 |-> 0, v2 |-> 0]
        ELSE IF want = 2 \/ i2.res # "ok"
          THEN [ret |-> 2, c |-> c, v1 |-> i1.v, v2 |-> 0]
        ELSE [ret |-> 3, c |-> c, v1 |-> i1.v, v2 |-> i2.v]

\* ------------------------------------------------------------------------
\* The display server and Xlib, as far as xin.c uses them
\* ------------------------------------------------------------------------

None == "None"
RootWindow == "RootWindow"

\* enum inject_method
INJECT_METHOD_XTEST == "INJECT_METHOD_XTEST"
INJECT_METHOD_SENDEVENT == "INJECT_METHOD_SENDEVENT"

\* Keyboard layouts the server knows, as setxkbmap names them.
LayoutUs == <<"u", "s">>
LayoutFr == <<"f", "r">>
Layouts == {LayoutUs, LayoutFr}

\* Keysyms of <X11/keysymdef.h> the inputs use: XK_a 97, XK_A 65,
\* XK_Shift_L 65505, XK_Shift_R 65506, XK_Control_L 65507.
\* XKeysymToKeycode(dpy, keysym) under the keyboard mapping Xlib holds:
\* 0 when the keysym is on no key.
XKeysymToKeycode(map, keysym) ==
  CASE keysym = 97 -> (IF map = LayoutFr THEN 24 ELSE 38)
    [] keysym = 65 -> (IF map = LayoutFr THEN 24 ELSE 38)
    [] keysym = 65505 -> 50
    [] keysym = 65506 -> 62
    [] keysym = 65507 -> 37
    [] OTHER -> 0

\* XkbKeysymToModifiers(dpy, keysym): ShiftMask is 1, ControlMask is 4.
XkbKeysymToModifiers(keysym) ==
  CASE keysym \in {65, 65505, 65506} -> 1
    [] keysym = 65507 -> 4
    [] OTHER -> 0

\* Bitwise operations on naturals.
RECURSIVE BitAnd(_, _)
BitAnd(a, b) ==
  IF a = 0 \/ b = 0 THEN 0
  ELSE (a % 2) * (b % 2) + 2 * BitAnd(a \div 2, b \div 2)

RECURSIVE BitOr(_, _)
BitOr(a, b) ==
  IF a = 0 THEN b
  ELSE IF b = 0 THEN a
  ELSE (IF a % 2 = 1 \/ b % 2 = 1 THEN 1 ELSE 0) + 2 * BitOr(a \div 2, b \div 2)

\* a & ~b
BitAndNot(a, b) == a - BitAnd(a, b)

\* Event types of the queue.  The member xmapping.request of the XEvent
\* union shares its storage with xkey.root, so that reading it from a key
\* event yields the root window's id.
MappingEvent(request) == [type |-> "MappingNotify", request |-> request]
KeyEvent(type) == [type |-> type, request |-> RootWindow]

MappingRequests == {"MappingKeyboard", "MappingModifier", "MappingPointer"}
MappingEvents == {MappingEvent(r) : r \in MappingRequests}
KeyEvents == {KeyEvent("KeyPress"), KeyEvent("KeyRelease")}

\* The event code MappingNotify of <X11/X.h>, which xkblayout() passes to
\* XCheckMaskEvent() as the event mask.
MappingNotify == 34

\* _Xevent_to_mask[] of Xlib: the mask bit that selects an event type
\* (KeyPressMask 1, KeyReleaseMask 2); MappingNotify is selected by none.
EventMask(e) ==
  CASE e.type = "KeyPress" -> 1
    [] e.type = "KeyRelease" -> 2
    [] OTHER -> 0

MaskMatches(e, mask) == BitAnd(EventMask(e), mask) # 0

\* ------------------------------------------------------------------------
\* State
\* ------------------------------------------------------------------------

VARIABLES
  method,          \* main(): the inject_method chosen from the -s flag
  screen,          \* DisplayWidth() and DisplayHeight() of the default screen
  pc,              \* "read": at fgets(); "wait": blocked in the XNextEvent()
                   \* loop of xkblayout(); "exit": the process has ended
  exit_status,     \* the exit status once pc = "exit"
  at_eof,          \* stdin has no byte left
  skip_truncated,  \* main(): skip_truncated
  buf,             \* main(): what the last fgets() stored in buf
  modifiers,       \* xkey_sendevent(): static int modifiers
  xb,              \* xmotion(): static XButtonEvent xb (root, x_root, y_root)
  queue,           \* the connection's queue of events not yet taken
  keymap,          \* the keyboard mapping Xlib holds for keysym lookups
  srvmap,          \* the keyboard mapping of the server
  grabs,           \* passive key grabs this client holds
  handlers,        \* the handler calls main() made for the last fgets()
  calls,           \* the Xlib and libc calls of the last turn of the read
                   \* loop or of the wait loop, in order
  warns,           \* the warnx() diagnostics of that turn, in order
  key_hist,        \* the last xkey_sendevent() calls, two at most, made in
                   \* a row on keysyms with modifier bits
  line_chunk,      \* which fgets() of its input line the last one was
  line_warns,      \* truncation diagnostics since the input line began
  line_calls,      \* handler calls since the input line began
  moved            \* xmotion() has been called

vars == <<method, screen, pc, exit_status, at_eof, skip_truncated, buf,
          modifiers, xb, queue, keymap, srvmap, grabs, handlers, calls,
          warns, key_hist, line_chunk, line_warns, line_calls, moved>>

\* ------------------------------------------------------------------------
\* Bounds of the model
\* ------------------------------------------------------------------------

\* Events the queue holds at most.
MaxQueue == 2

\* fgets() calls followed within one input line.
MaxChunks == 3

\* Key grabs counted.
MaxGrabs == 2

\* Screens (width, height) the display may have: a small one, and the
\* 800x600 one.
SmallW == 10
SmallH == 5
SmallScreen == [w |-> SmallW, h |-> SmallH]
BigScreen == [w |-> 800, h |-> 600]

\* Where the server may report the pointer when xmotion() first asks.
PointerSeeds(scr) ==
  IF scr = BigScreen THEN {[x |-> 100, y |-> 100]}
  ELSE {[x |-> x, y |-> y] : x \in {0, 3, scr.w - 1}, y \in {0, scr.h - 1}}
       \cup {[x |-> scr.w + 7, y |-> scr.h + 7]}

\* ------------------------------------------------------------------------
\* Handlers
\* ------------------------------------------------------------------------

\* How the process ended: EXIT_SUCCESS, the 1 of err(1, "reading stdin"),
\* the 1 of err(1, "system"), death by a trap.
ExitNone == "running"
ExitSuccess == "EXIT_SUCCESS"
ExitReadError == "1: reading stdin"
ExitSystem == "1: system"
ExitAbort == "SIGABRT"

Call(op) == [op |-> op]

WarnTruncated == "parse error; truncated input"
WarnFormat == "parse error; invalid or incomplete format"
WarnControl == "parse error; unknown control"
WarnKeycode == "couldn't find keycode for a keysym"
WarnFocus == "no input focus; sending events to root window"
WarnLayoutChars == "layout name cannot contain special characters"
WarnLayoutLong == "layout name too long"

\* xkey(): the key event through XTEST.
xkey(type, state, keycode) ==
  LET is_press == (type = "k")
      kc == IF keycode = 0 THEN XKeysymToKeycode(keymap, state) ELSE keycode
  IN  /\ IF kc = 0
           THEN /\ warns' = <<WarnKeycode>>
                /\ calls' = <<>>
           ELSE /\ warns' = <<>>
                /\ calls' = <<[op |-> "XTestFakeKeyEvent", keycode |-> kc,
                               is_press |-> is_press],
                              Call("XFlush")>>
      /\ UNCHANGED <<modifiers, xb, pc, exit_status, queue, keymap, srvmap,
                     grabs, key_hist, moved>>

\* The accounting with a release that clears nothing.
NextModifiersNoClear(mods, is_press, keysym) ==
  IF is_press THEN BitOr(mods, XkbKeysymToModifiers(keysym)) ELSE mods

\* The accounting with a release that flips the bits.
NextModifiersFlip(mods, is_press, keysym) ==
  LET m == XkbKeysymToModifiers(keysym)
  IN  IF is_press \/ BitAnd(mods, m) = 0 THEN BitOr(mods, m)
      ELSE BitAndNot(mods, m)

\* The modifier accounting of xkey_sendevent().
NextModifiers(mods, is_press, keysym) ==
  IF is_press THEN BitOr(mods, XkbKeysymToModifiers(keysym))
  ELSE BitAndNot(mods, XkbKeysymToModifiers(keysym))

\* A target that is the reported window even when XGetInputFocus() failed.
FocusWindowNoFallback(got, win) == win

\* The target of xkey_sendevent(): the focus XGetInputFocus() reported, or
\* the root window when it failed.
FocusWindow(got, win) == IF got THEN win ELSE RootWindow

\* xkey_sendevent(): the key event through XSendEvent() to the focus window.
\* XGetInputFocus() reports the focus, or fails.
xkey_sendevent(type, state, keycode) ==
  \E got \in BOOLEAN, win \in {"Window1", "PointerRoot"} :
    LET is_press == (type = "k")
        focus == FocusWindow(got, win)
        mods == NextModifiers(modifiers, is_press, state)
        e == [type |-> IF is_press THEN "KeyPress" ELSE "KeyRelease",
              keycode |-> XKeysymToKeycode(keymap, state),
              window |-> focus, subwindow |-> focus, state |-> mods]
    IN  /\ warns' = IF got THEN <<>> ELSE <<WarnFocus>>
        /\ modifiers' = mods
        /\ calls' = <<[op |-> "XGetInputFocus", ok |-> got, focus |-> win],
                      [op |-> "XSendEvent", w |-> focus,
                       event_mask |-> IF is_press THEN "KeyPressMask"
                                      ELSE "KeyReleaseMask",
                       event |-> e],
                      Call("XFlush")>>
        /\ key_hist' =
             IF XkbKeysymToModifiers(state) = 0 THEN <<>>
             ELSE (IF key_hist = <<>> THEN <<>>
                   ELSE <<key_hist[Len(key_hist)]>>)
                  \o <<[type |-> type, state |-> state,
                        before |-> modifiers, after |-> mods]>>
        /\ UNCHANGED <<xb, pc, exit_status, queue, keymap, srvmap, grabs,
                       moved>>

\* A button handler that takes its unused state argument for the modifier
\* bitmask.
xbuttonSetsState(type, state, button) ==
  /\ warns' = <<>>
  /\ calls' = <<[op |-> "XTestFakeButtonEvent", button |-> button,
                 is_press |-> (type = "b")],
                Call("XFlush")>>
  /\ modifiers' = state
  /\ UNCHANGED <<xb, pc, exit_status, queue, keymap, srvmap, grabs,
                 key_hist, moved>>

\* xbutton(): the button event through XTEST.
xbutton(type, state, button) ==
  /\ warns' = <<>>
  /\ calls' = <<[op |-> "XTestFakeButtonEvent", button |-> button,
                 is_press |-> (type = "b")],
                Call("XFlush")>>
  /\ UNCHANGED <<modifiers, xb, pc, exit_status, queue, keymap, srvmap,
                 grabs, key_hist, moved>>

\* a - b in int.  Signed overflow is undefined: the build either wraps the
\* result or traps.
SubInt(a, b) ==
  IF SubInRange(a, b) THEN {[trap |-> FALSE, v |-> a - b]}
  ELSE {[trap |-> FALSE, v |-> SubWrapped(a, b)], [trap |-> TRUE, v |-> 0]}

ClampLow(v) == IF v < 0 THEN 0 ELSE v

\* The upper clamp left out.
ClampHighMissing(v, max) == v

ClampHigh(v, max) == IF v >= max THEN max ELSE v

\* A pointer that every xmotion() asks the server for.
QueryPointerAlways(root) == TRUE

\* "Query initial pointer": xmotion() asks the server where the pointer is
\* while xb.root is None, which XQueryPointer() overwrites.
QueryInitialPointer(root) == root = None

\* xmotion(): the pointer's new place, and the motion event through XTEST.
xmotion(x, y) ==
  \E seed \in PointerSeeds(screen) :
    LET query == QueryInitialPointer(xb.root)
        x0 == IF query THEN seed.x ELSE xb.x_root
        y0 == IF query THEN seed.y ELSE xb.y_root
        asked == IF query
                   THEN <<[op |-> "XQueryPointer", x_root |-> seed.x,
                           y_root |-> seed.y]>>
                   ELSE <<>>
        maxw == screen.w
        maxh == screen.h
    IN  \E sx \in SubInt(x0, x), sy \in SubInt(y0, y) :
          IF sx.trap \/ sy.trap
            THEN /\ xb' = [root |-> RootWindow,
                           x_root |-> IF sx.trap THEN x0 ELSE sx.v,
                           y_root |-> y0]
                 /\ calls' = asked \o <<Call("abort")>>
                 /\ warns' = <<>>
                 /\ pc' = "exit"
                 /\ exit_status' = ExitAbort
                 /\ moved' = TRUE
                 /\ UNCHANGED <<modifiers, queue, keymap, srvmap, grabs,
                                key_hist>>
            ELSE LET nx == ClampHigh(ClampLow(sx.v), maxw)
                     ny == ClampHigh(ClampLow(sy.v), maxh)
                 IN  /\ xb' = [root |-> RootWindow, x_root |-> nx,
                               y_root |-> ny]
                     /\ calls' = asked \o
                          <<[op |-> "XTestFakeMotionEvent", x |-> nx,
                             y |-> ny],
                            Call("XFlush")>>
                     /\ warns' = <<>>
                     /\ moved' = TRUE
                     /\ UNCHANGED <<modifiers, pc, exit_status, queue,
                                    keymap, srvmap, grabs, key_hist>>

\* update_mapping(): the calls it makes for event e.
update_mapping(e) ==
  IF e.request = "MappingKeyboard"
    THEN <<Call("XRefreshKeyboardMapping")>>
    ELSE <<>>

\* while (XCheckMaskEvent(dpy, mask, &e) == True) update_mapping(dpy, &e):
\* every event of the queue that the mask selects is taken, in order.
RECURSIVE DrainCalls(_, _)
DrainCalls(q, mask) ==
  IF q = <<>> THEN <<>>
  ELSE (IF MaskMatches(Head(q), mask) THEN update_mapping(Head(q)) ELSE <<>>)
       \o DrainCalls(Tail(q), mask)

DrainRest(q, mask) == SelectSeq(q, LAMBDA e : ~MaskMatches(e, mask))

Refreshes(cs) == \E i \in 1..Len(cs) : cs[i].op = "XRefreshKeyboardMapping"

\* A validation that looks at the first character only.
LayoutNameValidFirst(layout) == isalpha(layout[1])

\* The validation loop of xkblayout().
LayoutNameValid(layout) == \A i \in 1..Len(layout) : isalpha(layout[i])

\* snprintf(s, sizeof(s), "setxkbmap %s", layout) >= sizeof(s), with
\* char s[128] and the 10 characters of "setxkbmap ".
LayoutNameTooLong(layout) == 10 + Len(layout) >= 128

\* system("setxkbmap <layout>"): -1 when no child could be made; a known
\* layout may become the server's mapping.
SystemOutcomes(layout) ==
  {[ret |-> -1, map |-> srvmap], [ret |-> 0, map |-> srvmap]}
  \cup (IF layout \in Layouts THEN {[ret |-> 0, map |-> layout]} ELSE {})

\* A grab that is let go again before xkblayout() returns.
XGrabKeyReleased(held) == held

\* XGrabKey(): one more passive grab held; xkblayout() has no XUngrabKey().
XGrabKey(held) == held + 1

\* xkblayout() up to its first XNextEvent().
xkblayout(layout) ==
  IF ~LayoutNameValid(layout)
    THEN /\ warns' = <<WarnLayoutChars>>
         /\ calls' = <<>>
         /\ UNCHANGED <<modifiers, xb, pc, exit_status, queue, keymap,
                        srvmap, grabs, key_hist, moved>>
  ELSE IF LayoutNameTooLong(layout)
    THEN /\ warns' = <<WarnLayoutLong>>
         /\ calls' = <<>>
         /\ UNCHANGED <<modifiers, xb, pc, exit_status, queue, keymap,
                        srvmap, grabs, key_hist, moved>>
  ELSE
    \E sys \in SystemOutcomes(layout) :
      LET drained == DrainCalls(queue, MappingNotify)
      IN  /\ grabs < MaxGrabs
          /\ grabs' = XGrabKey(grabs)
          /\ queue' = DrainRest(queue, MappingNotify)
          /\ keymap' = IF Refreshes(drained) THEN srvmap ELSE keymap
          /\ srvmap' = sys.map
          /\ calls' = <<Call("XGrabKey"), Call("XSync")>> \o drained
                      \o <<[op |-> "system",
                            s |-> <<"s", "e", "t", "x", "k", "b", "m", "a",
                                    "p", " ">> \o layout]>>
          /\ warns' = <<>>
          /\ IF sys.ret = -1
               THEN pc' = "exit" /\ exit_status' = ExitSystem
               ELSE pc' = "wait" /\ UNCHANGED exit_status
          /\ UNCHANGED <<modifiers, xb, key_hist, moved>>

\* A wait that any event ends.
WaitDoneAny(e) == TRUE

\* The do-while loop of xkblayout() ends with the first MappingNotify.
WaitDone(e) == e.type = "MappingNotify"

\* One turn of the do-while loop of xkblayout(): XNextEvent() takes the
\* first event of the queue (and blocks while there is none); the event that
\* ends the loop is followed by the second drain and the return to main().
XNextEvent ==
  /\ pc = "wait"
  /\ queue # <<>>
  /\ LET e == Head(queue)
         applied == IF e.type = "MappingNotify" THEN update_mapping(e)
                    ELSE <<>>
     IN  IF WaitDone(e)
           THEN LET drained == DrainCalls(Tail(queue), MappingNotify)
                IN  /\ pc' = "read"
                    /\ queue' = DrainRest(Tail(queue), MappingNotify)
                    /\ calls' = <<[op |-> "XNextEvent", e |-> e]>>
                                \o applied \o drained
                    /\ keymap' = IF Refreshes(applied \o drained)
                                   THEN srvmap ELSE keymap
           ELSE /\ pc' = "wait"
                /\ queue' = Tail(queue)
                /\ calls' = <<[op |-> "XNextEvent", e |-> e]>> \o applied
                /\ keymap' = IF Refreshes(applied) THEN srvmap ELSE keymap
  /\ warns' = <<>>
  /\ UNCHANGED <<method, screen, exit_status, at_eof, skip_truncated, buf,
                 modifiers, xb, srvmap, grabs, handlers, key_hist,
                 line_chunk, line_warns, line_calls, moved>>

\* The server sends an event: a MappingNotify at any time, a key event of
\* the grabbed key once a grab is held.
ServerEvent ==
  /\ pc # "exit"
  /\ Len(queue) < MaxQueue
  /\ \E e \in MappingEvents \cup (IF grabs > 0 THEN KeyEvents ELSE {}) :
       queue' = Append(queue, e)
  /\ UNCHANGED <<method, screen, pc, exit_status, at_eof, skip_truncated,
                 buf, modifiers, xb, keymap, srvmap, grabs, handlers, calls,
                 warns, key_hist, line_chunk, line_warns, line_calls, moved>>

\* ------------------------------------------------------------------------
\* main(): the read loop
\* ------------------------------------------------------------------------

\* What fgets(buf, sizeof(buf), stdin) can store: at most BufSize - 1
\* characters, ending with the first newline if there is one among them.
IsChunk(c) ==
  /\ Len(c) \in 1..(BufSize - 1)
  /\ \A i \in 1..(Len(c) - 1) : c[i] # NL

Handled(hs) ==
  UNCHANGED <<modifiers, xb, pc, exit_status, queue, keymap, srvmap, grabs,
              key_hist, moved>>
  /\ handlers' = hs

\* The body of the loop for a complete line (buf cut at its first CR or LF).
Dispatch(line) ==
  LET n == Len(line)
      two == sscanf(line, 2)
      three == sscanf(line, 3)
  IN  IF n > 2 /\ line[1] = "l"
        THEN LET layout == SubSeq(line, 3, n)
             IN  /\ handlers' = <<[fn |-> "xkblayout", layout |-> layout]>>
                 /\ xkblayout(layout)
      ELSE IF two.ret = 2 /\ two.c \in {"k", "K"}
        THEN IF method = INJECT_METHOD_SENDEVENT
               THEN /\ handlers' = <<[fn |-> "xkey_sendevent",
                                      type |-> two.c, state |-> two.v1,
                                      keycode |-> 0]>>
                    /\ xkey_sendevent(two.c, two.v1, 0)
               ELSE /\ handlers' = <<[fn |-> "xkey", type |-> two.c,
                                      state |-> two.v1, keycode |-> 0]>>
                    /\ xkey(two.c, two.v1, 0)
      ELSE IF three.ret # 3
        THEN /\ warns' = <<WarnFormat>>
             /\ calls' = <<>>
             /\ Handled(<<>>)
      ELSE CASE three.c = "m" ->
                  /\ handlers' = <<[fn |-> "xmotion", x |-> three.v1,
                                    y |-> three.v2]>>
                  /\ xmotion(three.v1, three.v2)
             [] three.c \in {"b", "B"} ->
                  /\ handlers' = <<[fn |-> "xbutton", type |-> three.c,
                                    state |-> three.v1,
                                    button |-> three.v2]>>
                  /\ xbutton(three.c, three.v1, three.v2)
             [] three.c \in {"k", "K"} ->
                  /\ handlers' = <<[fn |-> "xkey", type |-> three.c,
                                    state |-> three.v1,
                                    keycode |-> three.v2]>>
                  /\ xkey(three.c, three.v1, three.v2)
             [] OTHER ->
                  /\ warns' = <<WarnControl>>
                  /\ calls' = <<>>
                  /\ Handled(<<>>)

\* A truncation test that takes only a full buffer for a truncated line.
TruncatedWhenFull(chunk) == Len(chunk) = BufSize - 1

\* buf[n] == '\0' with n = strcspn(buf, "\r\n"): buf holds no CR and no LF.
Truncated(chunk) == strcspn(chunk) = Len(chunk)

\* One turn of the while loop: fgets() stores the next chunk of stdin, one
\* of the set In, and the body runs on it.
MainLoop(In) ==
  /\ pc = "read"
  /\ ~at_eof
  /\ \E chunk \in In :
       LET n == strcspn(chunk)
           new_line == IF buf = <<>> THEN TRUE ELSE buf[Len(buf)] = NL
       IN  /\ IsChunk(chunk)
           /\ IF new_line THEN TRUE ELSE line_chunk < MaxChunks
           /\ buf' = chunk
           /\ at_eof' = (chunk[Len(chunk)] # NL /\ Len(chunk) < BufSize - 1)
           /\ IF Truncated(chunk)
                THEN /\ warns' = IF skip_truncated = 0
                                   THEN <<WarnTruncated>> ELSE <<>>
                     /\ skip_truncated' = 1
                     /\ calls' = <<>>
                     /\ Handled(<<>>)
              ELSE IF skip_truncated # 0
                THEN /\ skip_truncated' = 0
                     /\ warns' = <<>>
                     /\ calls' = <<>>
                     /\ Handled(<<>>)
              ELSE /\ UNCHANGED skip_truncated
                   /\ Dispatch(SubSeq(chunk, 1, n))
           /\ line_chunk' = IF new_line THEN 1 ELSE line_chunk + 1
           /\ line_warns' = (IF new_line THEN 0 ELSE line_warns)
                + (IF warns' = <<WarnTruncated>> THEN 1 ELSE 0)
           /\ line_calls' = (IF new_line THEN 0 ELSE line_calls)
                + Len(handlers')
  /\ UNCHANGED <<method, screen>>

\* fgets() returns NULL at the end of stdin: main() returns EXIT_SUCCESS.
Eof ==
  /\ pc = "read"
  /\ pc' = "exit"
  /\ exit_status' = ExitSuccess
  /\ at_eof' = TRUE
  /\ UNCHANGED <<method, screen, skip_truncated, buf, modifiers, xb, queue,
                 keymap, srvmap, grabs, handlers, calls, warns, key_hist,
                 line_chunk, line_warns, line_calls, moved>>

\* fgets() returns NULL on a read error: err(1, "reading stdin").
ReadError ==
  /\ pc = "read"
  /\ ~at_eof
  /\ pc' = "exit"
  /\ exit_status' = ExitReadError
  /\ UNCHANGED <<method, screen, at_eof, skip_truncated, buf, modifiers, xb,
                 queue, keymap, srvmap, grabs, handlers, calls, warns,
                 key_hist, line_chunk, line_warns, line_calls, moved>>

InitOn(screens) ==
  /\ method \in {INJECT_METHOD_XTEST, INJECT_METHOD_SENDEVENT}
  /\ screen \in screens
  /\ pc = "read"
  /\ exit_status = ExitNone
  /\ at_eof = FALSE
  /\ skip_truncated = 0
  /\ buf = <<>>
  /\ modifiers = 0
  /\ xb = [root |-> None, x_root |-> 0, y_root |-> 0]
  /\ queue = <<>>
  /\ keymap = LayoutUs
  /\ srvmap = LayoutUs
  /\ grabs = 0
  /\ handlers = <<>>
  /\ calls = <<>>
  /\ warns = <<>>
  /\ key_hist = <<>>
  /\ line_chunk = 0
  /\ line_warns = 0
  /\ line_calls = 0
  /\ moved = FALSE

\* ------------------------------------------------------------------------
\* Input lines
\* ------------------------------------------------------------------------

DigitChar(d) == <<"0", "1", "2", "3", "4", "5", "6", "7", "8", "9">>[d + 1]

RECURSIVE NatStr(_)
NatStr(n) ==
  IF n < 10 THEN <<DigitChar(n)>>
  ELSE NatStr(n \div 10) \o <<DigitChar(n % 10)>>

\* The digits of -n, for n < 0.
RECURSIVE NegStr(_)
NegStr(n) ==
  LET d == (10 - (n % 10)) % 10
  IN  IF n > -10 THEN <<DigitChar(-n)>>
      ELSE NegStr((n + d) \div 10) \o <<DigitChar(d)>>

\* The decimal text of an integer.
IntStr(i) == IF i < 0 THEN <<"-">> \o NegStr(i) ELSE NatStr(i)

Line2(c, i) == <<c, " ">> \o IntStr(i)
Line3(c, i, j) == <<c, " ">> \o IntStr(i) \o <<" ">> \o IntStr(j)

\* s with its line ending.
Ln(s) == s \o <<NL>>
CrLn(s) == s \o <<CR, NL>>

\* s filled with "x" to the BufSize - 1 characters of a full buffer.
Pad(s) == s \o [i \in 1..(BufSize - 1 - Len(s)) |-> "x"]

\* Command characters, and the integers of the protocol lines: keysym
\* XK_a (97), and 24 and 0, on no key as keysyms.
Cmds == {"k", "K", "m", "b", "B", "l", "x"}
ProtoVals == {0, 24, 97}

\* Short lines of every shape: one to four fields, an integer glued to the
\* command character, a field that is no integer, the empty line.  None is
\* a layout line with an alphabetic name.
ProtoLines ==
  {<<>>, <<"l", " ">>, <<"l", "x">>}
  \cup {<<c>> : c \in Cmds}
  \cup {Line2(c, i) : c \in Cmds, i \in ProtoVals}
  \cup {Line3(c, i, j) : c \in Cmds, i \in ProtoVals, j \in ProtoVals}
  \cup {Line3(c, 97, 24) \o <<" ", "1">> : c \in Cmds}
  \cup {<<c>> \o IntStr(97) : c \in Cmds}
  \cup {<<c, " ", "-">> : c \in Cmds}

ProtoIn ==
  {Ln(l) : l \in ProtoLines} \cup {CrLn(Line2(c, 97)) : c \in {"k", "m"}}

\* Key lines: the keysyms of letters and of modifier keys, one on no key.
KeyLines ==
  {Line2(c, i) : c \in {"k", "K"}, i \in {0, 65, 97, 65505, 65506, 65507}}
  \cup {Line3(c, i, j) : c \in {"k", "K"}, i \in {0, 97}, j \in {0, 24}}

KeyIn == {Ln(l) : l \in KeyLines}

\* Motion and button lines; the deltas reach both ends of int.
MotionVals == {0, 5, -5, INT_MIN}

MotionLines ==
  {Line3("m", i, j) : i \in MotionVals, j \in MotionVals}
  \cup {Line3(c, 0, 1) : c \in {"b", "B"}}

\* On the 800x600 screen the pointer is moved by (5, 5) at a time, or by
\* the least int.
MotionIn ==
  IF screen = BigScreen
    THEN {Ln(Line3("m", 5, 5)), Ln(Line3("m", INT_MIN, 0))}
    ELSE {Ln(l) : l \in MotionLines}

\* Lines longer than the buffer arrive as full buffers followed by a tail;
\* the last line of stdin may lack its newline.
KeyA == Line2("k", 97)

TruncIn ==
  {Ln(KeyA), Ln(<<"x">>), Ln(<<>>), KeyA,
   Pad(<<>>), Pad(KeyA \o <<" ">>), Pad(KeyA \o <<CR>>),
   Pad(<<"x", CR>>)}

\* Layout lines, with names that are and are not alphabetic.
LayoutLines ==
  {<<"l", " ">> \o LayoutUs, <<"l", " ">> \o LayoutFr,
   <<"l", " ", "u">>, <<"l", " ", "u", "s", "-", "2">>,
   <<"l", " ", ";", " ", "r", "m", " ", "-", "r", "f">>,
   <<"l", "x">> \o LayoutUs, <<"l">> \o LayoutUs,
   <<"l", " ">>, <<"l", "x">>, KeyA}

LayoutIn == {Ln(l) : l \in LayoutLines}

\* ------------------------------------------------------------------------
\* Specifications: the program on each set of inputs
\* ------------------------------------------------------------------------

Init == InitOn({SmallScreen})

Next ==
  \/ MainLoop(ProtoIn)
  \/ Eof
  \/ ReadError

Spec == Init /\ [][Next]_vars

NextKeys ==
  \/ MainLoop(KeyIn)
  \/ Eof
  \/ ReadError

SpecKeys == Init /\ [][NextKeys]_vars

NextMotion ==
  \/ MainLoop(MotionIn)
  \/ Eof
  \/ ReadError

SpecMotion == InitOn({SmallScreen, BigScreen}) /\ [][NextMotion]_vars

NextTrunc ==
  \/ MainLoop(TruncIn)
  \/ Eof
  \/ ReadError

SpecTrunc == Init /\ [][NextTrunc]_vars

NextLayout ==
  \/ MainLoop(LayoutIn)
  \/ XNextEvent
  \/ ServerEvent
  \/ Eof
  \/ ReadError

SpecLayout == Init /\ [][NextLayout]_vars

\* Lines that are no layout command of the grammar: malformed ones (among
\* them an l not followed by a space), one of an unknown control, a key on
\* no keysym, a layout name that is not alphabetic, a button; a full buffer
\* of an over-long line, and a last line without its newline.
FiniteIn ==
  {Ln(<<"k">>), Ln(Line3("x", 0, 24)), Ln(Line2("k", 0)),
   Ln(<<"l", " ", "u", "s", "-", "2">>), Ln(<<"l", "x">> \o LayoutUs),
   Ln(Line3("b", 0, 1)), Pad(<<>>), KeyA}

NextFinite ==
  \/ MainLoop(FiniteIn)
  \/ XNextEvent
  \/ ServerEvent
  \/ Eof
  \/ ReadError

\* stdin is finite: at fgets(), the end of stdin is reached in the end; an
\* event in the queue is taken by the XNextEvent() that waits for it.  The
\* server owes the client no event.
SpecFinite ==
  Init /\ [][NextFinite]_vars /\ WF_vars(Eof) /\ WF_vars(XNextEvent)

\* Lines of every kind together: the press and the release of a modifier
\* key, a motion, a button, a layout command and a rejected one, a line of
\* an unknown control.
MixedIn ==
  {Ln(Line2("k", 65505)), Ln(Line2("K", 65505)), Ln(Line3("m", 97, 0)),
   Ln(Line3("b", 0, 1)), Ln(<<"l", " ">> \o LayoutUs),
   Ln(<<"l", " ", "u", "s", "-", "2">>), Ln(Line3("x", 0, 1))}

NextMixed ==
  \/ MainLoop(MixedIn)
  \/ XNextEvent
  \/ ServerEvent
  \/ Eof
  \/ ReadError

SpecMixed == InitOn({BigScreen}) /\ [][NextMixed]_vars

\* The lines of TruncIn, and a last line that ends with a CR and no newline.
LastIn == TruncIn \cup {KeyA \o <<CR>>}

NextLast ==
  \/ MainLoop(LastIn)
  \/ Eof
  \/ ReadError

SpecLast == Init /\ [][NextLast]_vars

\* ------------------------------------------------------------------------
\* The protocol as the specification words it
\* ------------------------------------------------------------------------

\* The last fgets() stored a complete line: the first chunk of its input
\* line, ending with the newline.
Complete == buf # <<>> /\ line_chunk = 1 /\ buf[Len(buf)] = NL

\* A chunk without its line ending (LF, or CR LF).
Text(b) ==
  LET t == IF b # <<>> /\ b[Len(b)] = NL THEN SubSeq(b, 1, Len(b) - 1) ELSE b
  IN  IF t # <<>> /\ t[Len(t)] = CR THEN SubSeq(t, 1, Len(t) - 1) ELSE t

\* The fields of a line, which single spaces separate.
RECURSIVE Fields(_)
Fields(t) ==
  LET sp == {i \in 1..Len(t) : t[i] = " "}
      first == CHOOSE i \in sp : \A k \in sp : i <= k
  IN  IF sp = {} THEN <<t>>
      ELSE <<SubSeq(t, 1, first - 1)>> \o Fields(SubSeq(t, first + 1, Len(t)))

\* A field that is the decimal text of an integer.
IsIntText(f) ==
  LET d == IF f # <<>> /\ f[1] = "-" THEN Tail(f) ELSE f
  IN  d # <<>> /\ \A i \in 1..Len(d) : d[i] \in Digits

\* `l <name>`: an l, a space, and at least one more character.
LayoutForm(t) == Len(t) >= 3 /\ t[1] = "l" /\ t[2] = " "

\* `k <int>` and `K <int>`.
KeyForm2(t) ==
  LET f == Fields(t)
  IN  Len(f) = 2 /\ f[1] \in {<<"k">>, <<"K">>} /\ IsIntText(f[2])

\* `<char> <int> <int>` with one of the command characters.
CmdForm3(t) ==
  LET f == Fields(t)
  IN  /\ Len(f) = 3
      /\ f[1] \in {<<"m">>, <<"b">>, <<"B">>, <<"k">>, <<"K">>}
      /\ IsIntText(f[2])
      /\ IsIntText(f[3])

NoRule(t) == ~LayoutForm(t) /\ ~KeyForm2(t) /\ ~CmdForm3(t)

\* The key events of the last turn, injected (XTEST) or delivered
\* (XSendEvent), and their keycodes.
KeyCalls == SelectSeq(calls, LAMBDA c : c.op \in {"XTestFakeKeyEvent", "XSendEvent"})

KeycodeOf(c) == IF c.op = "XSendEvent" THEN c.event.keycode ELSE c.keycode

KeyHandled ==
  Len(handlers) = 1 /\ handlers[1].fn \in {"xkey", "xkey_sendevent"}

\* The process was ended by what a handler did, not by the end of stdin.
Killed == exit_status \in {ExitAbort, ExitSystem}

\* ------------------------------------------------------------------------
\* Claims
\* ------------------------------------------------------------------------

\* C1: every complete line `k <int1> <int2>` or `K <int1> <int2>` makes the
\* dispatcher issue exactly one key command, of the line's type, with
\* state = int1 and keycode = int2, and an int2 other than 0 is the keycode
\* injected.  (Violated: sscanf(buf, "%c %d") returns 2 on such a line as
\* well, so the two-field branch takes it with keycode 0.)
C1_KeyLineKeepsKeycode ==
  \A c \in {"k", "K"}, i \in {0, 97}, j \in {0, 24} :
    (Complete /\ buf = Ln(Line3(c, i, j))) =>
      /\ KeyHandled
      /\ handlers[1].type = c
      /\ handlers[1].state = i
      /\ handlers[1].keycode = j
      /\ (j # 0 =>
            /\ Len(KeyCalls) = 1
            /\ KeycodeOf(KeyCalls[1]) = j)

\* C2: a complete line is handed to xkblayout(), with the rest of the line
\* as the layout name, if and only if it is an l, a space and at least one
\* more character.  (Violated: main() tests buf[0] and the length only, so
\* "lxus" is the layout "us".)
C2_LayoutIffForm ==
  Complete =>
    LET t == Text(buf)
        classified == Len(handlers) = 1 /\ handlers[1].fn = "xkblayout"
    IN  /\ classified <=> LayoutForm(t)
        /\ classified => handlers[1].layout = SubSeq(t, 3, Len(t))

\* C3: when the last chunk of a line longer than the buffer has been read,
\* the line has produced exactly one truncation diagnostic and no handler
\* call, and the next line is not skipped.  (Violated: a CR within the
\* line makes strcspn() see a complete line in the middle of it.)
C3_OverlongLineSkipped ==
  (buf # <<>> /\ buf[Len(buf)] = NL /\ line_chunk >= 2) =>
    /\ line_warns = 1
    /\ line_calls = 0
    /\ skip_truncated = 0

\* C4: a complete line that matches no rule of the grammar leads to no
\* key, button, motion or layout action and to exactly one diagnostic, and
\* does not end the process.  (Violated: sscanf() accepts what follows its
\* last conversion, and an integer glued to the command character.)
C4_NoRuleNoCall ==
  (Complete /\ NoRule(Text(buf))) =>
    /\ calls = <<>>
    /\ Len(warns) = 1
    /\ ~Killed

\* C5: a key command whose keysym is on no key (the lookup yields 0), under
\* either method: exactly one diagnostic, no key event injected or
\* delivered, and the process goes on.  (Violated: xkey_sendevent() does
\* not test the keycode.)
C5_UnresolvedKeysymDiscarded ==
  (/\ KeyHandled
   /\ handlers[1].keycode = 0
   /\ XKeysymToKeycode(keymap, handlers[1].state) = 0) =>
    /\ Len(warns) = 1
    /\ KeyCalls = <<>>
    /\ ~Killed

\* C6: a layout command whose name has a character that is no letter gets
\* a warning and nothing else: no grab, no synchronization, no external
\* command, no wait on the event queue.  A name of letters only is accepted
\* and the external command is run exactly once, with that name.
LayoutTurn ==
  /\ Len(handlers) = 1
  /\ handlers[1].fn = "xkblayout"
  /\ (calls = <<>> \/ calls[1].op # "XNextEvent")

SystemCalls == SelectSeq(calls, LAMBDA c : c.op = "system")

C6_LayoutNameValidated ==
  LayoutTurn =>
    LET name == handlers[1].layout
    IN  IF \A i \in 1..Len(name) : name[i] \in Letters
          THEN /\ warns = <<>>
               /\ Len(SystemCalls) = 1
               /\ SystemCalls[1].s =
                    <<"s", "e", "t", "x", "k", "b", "m", "a", "p", " ">>
                    \o name
          ELSE /\ warns = <<WarnLayoutChars>>
               /\ calls = <<>>
               /\ pc # "wait"

\* The line "l us-2" has been rejected.
C6_Witness ==
  /\ buf = Ln(<<"l", " ", "u", "s", "-", "2">>)
  /\ LayoutTurn
  /\ handlers[1].layout = <<"u", "s", "-", "2">>
  /\ warns = <<WarnLayoutChars>>
  /\ pc = "read"

\* clamp(x - d, 0, bound) of the specification, for ints x and d.
ClaimClamp(x, d, bound) ==
  IF d > x THEN 0
  ELSE IF d <= x - bound THEN bound
  ELSE x - d

MotionCalls == SelectSeq(calls, LAMBDA c : c.op = "XTestFakeMotionEvent")

\* C7: a motion command (dx, dy) at the pointer position (x, y) leaves the
\* position, and injects the motion event, at
\* (clamp(x - dx, 0, W), clamp(y - dy, 0, H)).  (Violated: x - dx is
\* computed in int and overflows for dx near the least int.)
C7_MotionClamped ==
  [][(/\ pc = "read"
      /\ exit_status' \notin {ExitSuccess, ExitReadError}
      /\ Len(handlers') = 1
      /\ handlers'[1].fn = "xmotion") =>
       LET x == IF xb.root = None THEN calls'[1].x_root ELSE xb.x_root
           y == IF xb.root = None THEN calls'[1].y_root ELSE xb.y_root
           nx == ClaimClamp(x, handlers'[1].x, screen.w)
           ny == ClaimClamp(y, handlers'[1].y, screen.h)
       IN  /\ xb'.x_root = nx
           /\ xb'.y_root = ny
           /\ \E i \in 1..Len(calls') :
                /\ calls'[i].op = "XTestFakeMotionEvent"
                /\ calls'[i].x = nx
                /\ calls'[i].y = ny]_vars

\* C8: after every motion update 0 <= x_root <= width and
\* 0 <= y_root <= height, wherever the server reported the pointer, and
\* every motion event injected carries coordinates within these bounds.
C8_PointerInBounds ==
  /\ \A i \in 1..Len(MotionCalls) :
       /\ 0 <= MotionCalls[i].x /\ MotionCalls[i].x <= screen.w
       /\ 0 <= MotionCalls[i].y /\ MotionCalls[i].y <= screen.h
  /\ (xb.root # None /\ exit_status # ExitAbort) =>
       /\ 0 <= xb.x_root /\ xb.x_root <= screen.w
       /\ 0 <= xb.y_root /\ xb.y_root <= screen.h

\* A motion has put the pointer on the right edge, from a seed off it.
C8_Witness ==
  /\ xb.root # None
  /\ xb.x_root = screen.w
  /\ xb.y_root = 0
  /\ Len(MotionCalls) = 1
  /\ MotionCalls[1].x = screen.w

\* The press of a keysym with modifier bits, then the release of the same
\* keysym, were the last two key commands.
PressThenRelease ==
  /\ Len(key_hist) = 2
  /\ key_hist[1].type = "k"
  /\ key_hist[2].type = "K"
  /\ key_hist[1].state = key_hist[2].state

\* C9, as claimed: under direct delivery the press of a keysym with modifier
\* bit M followed at once by its release restores the bitmask to its
\* value before the press, whatever that value; after a press not yet
\* released, M is set.  (Violated when M was set before the press.)
C9_PressReleaseRestores ==
  /\ PressThenRelease => modifiers = key_hist[1].before
  /\ (key_hist # <<>> /\ key_hist[Len(key_hist)].type = "k") =>
       LET m == XkbKeysymToModifiers(key_hist[Len(key_hist)].state)
       IN  BitAnd(modifiers, m) = m

\* C9, amended: the press followed at once by the release leaves the
\* bitmask at its value before the press with M cleared, which is that
\* value when M was clear before the press; after a press not yet released,
\* M is set.
C9_PressReleaseClears ==
  /\ PressThenRelease =>
       LET m == XkbKeysymToModifiers(key_hist[1].state)
       IN  /\ modifiers = BitAndNot(key_hist[1].before, m)
           /\ BitAnd(key_hist[1].before, m) = 0 =>
                modifiers = key_hist[1].before
  /\ (key_hist # <<>> /\ key_hist[Len(key_hist)].type = "k") =>
       LET m == XkbKeysymToModifiers(key_hist[Len(key_hist)].state)
       IN  BitAnd(modifiers, m) = m

\* Shift was pressed and released while Control was held: Control stays.
C9_Witness ==
  /\ PressThenRelease
  /\ key_hist[1].state = 65505
  /\ key_hist[1].before = 4
  /\ key_hist[1].after = 5
  /\ modifiers = 4

\* C10: once the external command has been run, xkblayout() does not return
\* and main() reads no line until a MappingNotify has been taken from the
\* queue; every other event, and an empty queue, leave it waiting.
C10_WaitForMapping ==
  /\ []((calls # <<>> /\ calls[Len(calls)].op = "system") => pc # "read")
  /\ [][pc = "wait" =>
          /\ buf' = buf
          /\ handlers' = handlers
          /\ pc' \in {"wait", "read"}
          /\ pc' = "read" =>
               /\ queue # <<>>
               /\ Head(queue).type = "MappingNotify"
               /\ calls'[1] = [op |-> "XNextEvent", e |-> Head(queue)]]_vars

\* xkblayout() has returned to the read loop after a key event and then a
\* MappingNotify were taken.
C10_Witness ==
  /\ pc = "read"
  /\ calls # <<>>
  /\ calls[1].op = "XNextEvent"
  /\ calls[1].e.type = "MappingNotify"
  /\ grabs > 0

\* C11: on a finite stdin without a layout command of the grammar the
\* process ends, with EXIT_SUCCESS at the end of stdin or with the failure
\* of a read error, whatever malformed, unknown, unresolvable, invalid or
\* truncated lines it read.  (Violated: "lxus" is run as the layout "us",
\* and the process waits for an event that need not come, or dies of a
\* failed system().)
C11_EndsAtEof ==
  /\ <>(pc = "exit")
  /\ [](pc = "exit" => exit_status \in {ExitSuccess, ExitReadError})

\* The MappingNotify events of a queue.
Notifications(q) == SelectSeq(q, LAMBDA e : e.type = "MappingNotify")

\* C12: the turn of an accepted layout command grabs the key, synchronizes,
\* drains, and then runs the external command, and no MappingNotify that was
\* in the queue is left in it when the command is run; the turn that ends
\* the wait takes its event first and drains after it.  (Violated: the
\* drain passes the event code MappingNotify as the event mask, which
\* selects no MappingNotify, so a queued one stays and ends the wait.)
C12_StaleNotificationsDrained ==
  [][/\ (pc = "read" /\ (pc' = "wait" \/ exit_status' = ExitSystem)) =>
          /\ Len(calls') >= 3
          /\ calls'[1].op = "XGrabKey"
          /\ calls'[2].op = "XSync"
          /\ \A i \in 3..(Len(calls') - 1) :
               calls'[i].op = "XRefreshKeyboardMapping"
          /\ calls'[Len(calls')].op = "system"
          /\ Notifications(queue') = <<>>
     /\ (pc = "wait" /\ pc' = "read") =>
          /\ calls'[1].op = "XNextEvent"
          /\ \A i \in 2..Len(calls') :
               calls'[i].op = "XRefreshKeyboardMapping"]_vars

\* C13: every MappingNotify the wait takes is applied by a refresh of the
\* keyboard mapping, whatever its request; and when xkblayout() returns, the
\* mapping Xlib holds has been refreshed to the server's and no
\* MappingNotify is left in the queue.  (Violated: update_mapping()
\* refreshes for the request MappingKeyboard only, and the second drain
\* selects no MappingNotify.)
C13_NotificationsApplied ==
  [][/\ (/\ pc = "wait"
         /\ Len(queue') < Len(queue)
         /\ Head(queue).type = "MappingNotify") =>
          /\ Len(calls') >= 2
          /\ calls'[2].op = "XRefreshKeyboardMapping"
     /\ (pc = "wait" /\ pc' = "read") =>
          /\ Refreshes(calls')
          /\ keymap' = srvmap
          /\ Notifications(queue') = <<>>]_vars

\* A turn of the read loop that called xmotion().
MotionTurn ==
  /\ pc = "read"
  /\ exit_status' \notin {ExitSuccess, ExitReadError}
  /\ Len(handlers') = 1
  /\ handlers'[1].fn = "xmotion"

PointerQueries(cs) == SelectSeq(cs, LAMBDA c : c.op = "XQueryPointer")

\* C14: the first xmotion() asks the server for the pointer exactly once,
\* before anything else; no later xmotion() and no other turn asks, and a
\* later xmotion() whose subtraction stays within int puts the pointer where
\* the position kept and the screen bounds say.
C14_QueryOnFirstMotionOnly ==
  [][IF MotionTurn
       THEN IF ~moved
              THEN /\ Len(PointerQueries(calls')) = 1
                   /\ calls'[1].op = "XQueryPointer"
              ELSE /\ PointerQueries(calls') = <<>>
                   /\ (/\ SubInRange(xb.x_root, handlers'[1].x)
                       /\ SubInRange(xb.y_root, handlers'[1].y)) =>
                        /\ xb'.x_root =
                             ClaimClamp(xb.x_root, handlers'[1].x, screen.w)
                        /\ xb'.y_root =
                             ClaimClamp(xb.y_root, handlers'[1].y, screen.h)
       ELSE calls' = calls \/ PointerQueries(calls') = <<>>]_vars

\* A second motion command has moved the pointer without a query.
C14_Witness ==
  /\ moved
  /\ Len(handlers) = 1
  /\ handlers[1].fn = "xmotion"
  /\ PointerQueries(calls) = <<>>
  /\ Len(MotionCalls) = 1
  /\ xb.x_root = 90
  /\ xb.y_root = 90

\* A turn of the read loop that called xkey_sendevent().
SendTurn ==
  /\ pc = "read"
  /\ exit_status' \notin {ExitSuccess, ExitReadError}
  /\ Len(handlers') = 1
  /\ handlers'[1].fn = "xkey_sendevent"

SendCalls(cs) == SelectSeq(cs, LAMBDA c : c.op = "XSendEvent")

\* C15: a key command on keysym s under direct delivery delivers exactly one
\* event: a KeyPress for `k`, a KeyRelease for `K`; its state is the old
\* bitmask with the modifier bits of s set (press) or cleared (release),
\* which is the new bitmask; its keycode is the one looked up for s; its
\* window and subwindow are the target, the focus reported or, with a
\* warning, the root window when none was.
C15_DeliveredEvent ==
  [][SendTurn =>
       LET h == handlers'[1]
           m == XkbKeysymToModifiers(h.state)
           asked == calls'[1]
           sent == SendCalls(calls')
           ev == sent[1].event
           target == sent[1].w
       IN  /\ asked.op = "XGetInputFocus"
           /\ Len(sent) = 1
           /\ ev.type = (IF h.type = "k" THEN "KeyPress" ELSE "KeyRelease")
           /\ ev.state = (IF h.type = "k" THEN BitOr(modifiers, m)
                          ELSE BitAndNot(modifiers, m))
           /\ ev.state = modifiers'
           /\ ev.keycode = XKeysymToKeycode(keymap, h.state)
           /\ ev.window = target
           /\ ev.subwindow = target
           /\ IF asked.ok
                THEN target = asked.focus /\ warns' = <<>>
                ELSE target = RootWindow /\ warns' = <<WarnFocus>>]_vars

\* Shift_L was released while Control was held and no focus was reported:
\* the KeyRelease went to the root window with the state of Control alone.
C15_Witness ==
  /\ Len(handlers) = 1
  /\ handlers[1].fn = "xkey_sendevent"
  /\ handlers[1].type = "K"
  /\ handlers[1].state = 65505
  /\ warns = <<WarnFocus>>
  /\ Len(SendCalls(calls)) = 1
  /\ SendCalls(calls)[1].w = RootWindow
  /\ SendCalls(calls)[1].event.type = "KeyRelease"
  /\ SendCalls(calls)[1].event.state = 4
  /\ SendCalls(calls)[1].event.keycode = 50
  /\ modifiers = 4

\* The command character of the line a step has read.
LineKind == IF buf' = <<>> THEN "" ELSE buf'[1]

XTestCalls(cs) ==
  SelectSeq(cs, LAMBDA c : c.op \in {"XTestFakeKeyEvent",
                                     "XTestFakeButtonEvent",
                                     "XTestFakeMotionEvent"})

\* C16: the modifier bitmask changes only in a turn that handles a key line
\* through xkey_sendevent(), and the pointer record only in a turn that
\* handles a motion line; so button, layout and rejected lines, the wait of
\* a layout switch and the end of stdin leave both as they are.  Under
\* XTEST the bitmask is 0 in every state; under direct delivery button and
\* motion commands are injected through XTEST all the same.
C16_StateFrames ==
  /\ [](method = INJECT_METHOD_XTEST => modifiers = 0)
  /\ [][/\ modifiers' # modifiers =>
             /\ pc = "read"
             /\ method = INJECT_METHOD_SENDEVENT
             /\ LineKind \in {"k", "K"}
             /\ Len(handlers') = 1
             /\ handlers'[1].fn = "xkey_sendevent"
        /\ xb' # xb =>
             /\ pc = "read"
             /\ LineKind = "m"
             /\ Len(handlers') = 1
             /\ handlers'[1].fn = "xmotion"
        /\ (/\ pc = "read"
            /\ exit_status' \notin {ExitSuccess, ExitReadError}
            /\ Len(handlers') = 1
            /\ handlers'[1].fn \in {"xbutton", "xmotion"}) =>
             /\ Len(XTestCalls(calls')) = 1
             /\ SendCalls(calls') = <<>>]_vars

\* Under direct delivery, with Shift_L held and the pointer moved to (3, 100),
\* a button press was injected through XTEST.
C16_Witness ==
  /\ method = INJECT_METHOD_SENDEVENT
  /\ modifiers = 1
  /\ xb.root # None
  /\ xb.x_root = 3
  /\ xb.y_root = 100
  /\ Len(handlers) = 1
  /\ handlers[1].fn = "xbutton"
  /\ Len(calls) = 2
  /\ calls[1].op = "XTestFakeButtonEvent"
  /\ calls[1].button = 1

\* C17: the accounting is no stack of presses: the release of a keysym
\* leaves its modifier bits clear whatever other keys of the same bits are
\* held, so that a state is reached where Shift_R was pressed after Shift_L
\* and not released, Shift_L was released, and the Shift bit is clear.
C17_ReleaseClearsWhateverIsHeld ==
  (key_hist # <<>> /\ key_hist[Len(key_hist)].type = "K") =>
    LET m == XkbKeysymToModifiers(key_hist[Len(key_hist)].state)
    IN  /\ BitAnd(modifiers, m) = 0
        /\ modifiers = BitAndNot(key_hist[Len(key_hist)].before, m)

\* Shift_R was pressed while the Shift bit was set, then Shift_L was
\* released: Shift_R is held and the Shift bit is clear.
C17_Witness ==
  /\ method = INJECT_METHOD_SENDEVENT
  /\ Len(key_hist) = 2
  /\ key_hist[1].type = "k"
  /\ key_hist[1].state = 65506
  /\ key_hist[1].before = 1
  /\ key_hist[2].type = "K"
  /\ key_hist[2].state = 65505
  /\ XkbKeysymToModifiers(65506) = 1
  /\ BitAnd(modifiers, 1) = 0

\* The step that reads the last line of stdin, which lacks its newline.
LastLineRead == pc = "read" /\ ~at_eof /\ at_eof' /\ pc' = "read"

\* The chunk read before was reported or skipped as truncated.
InTruncationRun == buf # <<>> /\ \A i \in 1..Len(buf) : buf[i] \notin {CR, NL}

\* What the claim says of a step that reads an unterminated last line: no
\* handler call and no X call, the truncation diagnostic unless the line
\* continues a truncation already reported; and EXIT_SUCCESS follows.
LastLineSkipped ==
  /\ handlers' = <<>>
  /\ calls' = <<>>
  /\ warns' = (IF InTruncationRun THEN <<>> ELSE <<WarnTruncated>>)

AcceptedLayoutTurn ==
  /\ pc = "read"
  /\ exit_status' \notin {ExitSuccess, ExitReadError}
  /\ Len(queue') <= Len(queue)
  /\ Len(handlers') = 1
  /\ handlers'[1].fn = "xkblayout"
  /\ \A i \in 1..Len(handlers'[1].layout) : handlers'[1].layout[i] \in Letters

GrabCalls(cs) == SelectSeq(cs, LAMBDA c : c.op = "XGrabKey")

UngrabCalls(cs) == SelectSeq(cs, LAMBDA c : c.op = "XUngrabKey")

\* C19: every accepted layout command issues one grab request, nothing else
\* issues one, and no ungrab request is ever issued: the grabs held grow by
\* one with each accepted command and never shrink, and a grab is held
\* while xkblayout() waits and when it returns.
C19_GrabNeverReleased ==
  /\ [](pc = "wait" => grabs >= 1)
  /\ [][/\ IF AcceptedLayoutTurn
             THEN /\ grabs' = grabs + 1
                  /\ Len(GrabCalls(calls')) = 1
             ELSE /\ grabs' = grabs
                  /\ (calls' = calls \/ GrabCalls(calls') = <<>>)
        /\ UngrabCalls(calls') = <<>>
        /\ (pc = "wait" /\ pc' = "read") => grabs' >= 1]_vars

\* xkblayout() has returned from its second accepted command: two grabs are
\* held.
C19_Witness ==
  /\ grabs = 2
  /\ pc = "read"
  /\ calls # <<>>
  /\ calls[1].op = "XNextEvent"
  /\ Len(handlers) = 1
  /\ handlers[1].fn = "xkblayout"

====
